---- MODULE Spec2Model ----
(***************************************************************************)
(* A model of the lazy stream nodes of streams/__init__.py and              *)
(* streams/abc.py.  A node is a value with one (singly linked) or two       *)
(* (doubly linked) lazily resolved links; a link is either resolved (the    *)
(* _next/_previous slot is set) or still a thunk.  The heap is a sequence   *)
(* of nodes, a node's identity is its index, and None is 0.  Every          *)
(* operation is evaluated to completion (the library is single threaded):   *)
(* the operators below thread the heap through the evaluation and return    *)
(* the heap, the returned object and the exception raised, if any.          *)
(***************************************************************************)
EXTENDS Integers, Sequences, FiniteSets, TLC

VARIABLES heap, pre, res, it, ops, scn

vars == <<heap, pre, res, it, ops, scn>>

(* ------------------------------ bounds -------------------------------- *)
MaxVal == 2
MaxLen == 3
MaxIdx == 3
MaxOps == 3
MaxYield == 4
MaxRuns == 2

(* ------------------------- values and thunks -------------------------- *)
None == 0
Ok == "ok"
Dir == {"next", "previous"}
Values == 1..MaxVal

NoInit == [field |-> "", node |-> None, guarded |-> FALSE]

\* A closure: what it does when called (op), the class it builds (cls), the
\* nodes and iterators it captured (a), an integer it captured (k), a
\* direction (d), and the initializer thunk_init attached to it.
Thunk(op, cls, a, k, d) ==
    [op |-> op, cls |-> cls, a |-> a, k |-> k, d |-> d, init |-> NoInit]

\* lambda: node
ConstThunk(n) == Thunk("const", "", <<n>>, 0, "")

\* A singly linked node has no _previous_thunk slot.
NoThunk == Thunk("none", "", <<>>, 0, "")

ThunkInitDropped(th, field, node, guarded) == th

\* thunk_init(thunk, init) where init(obj) sets obj.<field> = node, inside
\* try/except AttributeError when guarded.
thunk_init(th, field, node, guarded) ==
    [th EXCEPT !.init = [field |-> field, node |-> node, guarded |-> guarded]]

FieldDir(field) == IF field = "_next" THEN "next" ELSE "previous"

(* ------------------------------- nodes -------------------------------- *)
\* calls, first and stable are history: how often the thunk of a direction
\* was invoked, what the first read of the direction returned, and whether
\* every read so far returned that same object.
NewNode(cls, value, next_thunk, previous_thunk, does_memoize) ==
    [cls |-> cls, value |-> value, memo |-> does_memoize,
     thunk |-> [d \in Dir |-> IF d = "next" THEN next_thunk ELSE previous_thunk],
     res |-> [d \in Dir |-> FALSE],
     link |-> [d \in Dir |-> None],
     calls |-> [d \in Dir |-> 0],
     first |-> [d \in Dir |-> -1],
     stable |-> [d \in Dir |-> TRUE]]

SinglyLinkedStream(value, next_thunk, does_memoize) ==
    NewNode("S", value, next_thunk, NoThunk, does_memoize)

DoublyLinkedStream(value, next_thunk, previous_thunk, does_memoize) ==
    NewNode("D", value, next_thunk, previous_thunk, does_memoize)

Ret(h, v) == [h |-> h, ret |-> v, err |-> Ok]
Raise(h, e) == [h |-> h, ret |-> None, err |-> e]

Alloc(h, node) ==
    Ret([h EXCEPT !.nodes = Append(@, node)], Len(h.nodes) + 1)

NextId(h) == Len(h.nodes) + 1

\* self._next = value / self._previous = value
SetLink(h, n, d, v) ==
    [h EXCEPT !.nodes[n].res[d] = TRUE, !.nodes[n].link[d] = v]

MemoizeNever(h, n, d, v) == h

\* if self.does_memoize: self._next = next_
Memoize(h, n, d, v) ==
    IF h.nodes[n].memo THEN SetLink(h, n, d, v) ELSE h

CountCall(h, n, d) ==
    [h EXCEPT !.nodes[n].calls[d] = @ + 1]

NoteRead(h, n, d, v) ==
    [h EXCEPT !.nodes[n].first[d] = IF @ = -1 THEN v ELSE @,
              !.nodes[n].stable[d] =
                  @ /\ (h.nodes[n].first[d] = -1 \/ h.nodes[n].first[d] = v)]

InitAttrSkipped(h, obj, init) == Ret(h, obj)

\* init(obj) of thunk_init: obj._previous = node or obj._next = node.  None
\* has no attributes and a singly linked node has no _previous slot.
InitAttr(h, obj, init) ==
    IF obj = None \/ (h.nodes[obj].cls = "S" /\ init.field = "_previous")
    THEN IF init.guarded THEN Ret(h, obj) ELSE Raise(h, "AttributeError")
    ELSE Ret(SetLink(h, obj, FieldDir(init.field), init.node), obj)

(* ----------------------------- iterators ------------------------------ *)
\* next(iterator) on the iterator of a sequence: pos items were consumed.
NextItem(h, i) ==
    LET itr == h.iters[i] IN
    IF itr.pos < Len(itr.seq)
    THEN [h |-> [h EXCEPT !.iters[i].pos = @ + 1, !.iters[i].pulls = @ + 1],
          ret |-> itr.seq[itr.pos + 1], err |-> Ok]
    ELSE [h |-> [h EXCEPT !.iters[i].pulls = @ + 1],
          ret |-> None, err |-> "StopIteration"]

FromIteratorUncached(h, i, does_memoize) ==
    LET v == NextItem(h, i) IN
    IF v.err = "StopIteration" THEN Ret(v.h, None)
    ELSE Alloc(v.h, SinglyLinkedStream(v.ret,
                 Thunk("from_iterator", "S", <<i>>, 1, ""), FALSE))

\* SinglyLinkedStream._from_iterator: the thunk calls
\* cls._from_iterator(iterator), so the following nodes memoize by default.
FromIteratorS(h, i, does_memoize) ==
    LET v == NextItem(h, i) IN
    IF v.err = "StopIteration" THEN Ret(v.h, None)
    ELSE Alloc(v.h, SinglyLinkedStream(v.ret,
                 Thunk("from_iterator", "S", <<i>>, 1, ""), does_memoize))

\* DoublyLinkedStream._from_iterator: cls() on exhaustion lacks the
\* required arguments of __init__.
FromIteratorD(h, i, previous_thunk, does_memoize) ==
    LET v == NextItem(h, i) IN
    IF v.err = "StopIteration" THEN Raise(v.h, "TypeError")
    ELSE Alloc(v.h, DoublyLinkedStream(v.ret,
                 Thunk("from_iterator", "D", <<i, NextId(v.h)>>,
                       IF does_memoize THEN 1 ELSE 0, ""),
                 previous_thunk, does_memoize))

EmptyHeap == [nodes |-> <<>>, iters |-> <<>>]

\* iter(iterable)
Iter(h, S) ==
    [h EXCEPT !.iters = Append(@, [seq |-> S, pos |-> 0, pulls |-> 0])]

\* LinearStream.from_iterable: cls._from_iterator(iter(iterable))
from_iterable(h, cls, S) ==
    IF cls = "S" THEN FromIteratorS(Iter(h, S), Len(h.iters) + 1, TRUE)
    ELSE FromIteratorD(Iter(h, S), Len(h.iters) + 1, ConstThunk(None), TRUE)

(* ------------------------- node constructors -------------------------- *)
\* DoublyLinkedStream._stopper: the thunks limit self.next to k - 1 and
\* self.previous to k + 1 nodes; a memoizing node wraps them with
\* thunk_init.
StopperD(h, n, k) ==
    LET node == NextId(h)
        fwd == Thunk("stop_link", "D", <<n>>, k, "next")
        bwd == Thunk("stop_link", "D", <<n>>, k, "previous")
    IN  IF k = 0 THEN Ret(h, None)
        ELSE IF h.nodes[n].memo
        THEN Alloc(h, DoublyLinkedStream(h.nodes[n].value,
                     thunk_init(fwd, "_previous", node, TRUE),
                     thunk_init(bwd, "_next", node, TRUE), TRUE))
        ELSE Alloc(h, DoublyLinkedStream(h.nodes[n].value, fwd, bwd, FALSE))

\* DoublyLinkedStream._stepper: the thunks step k links forward and k
\* links backward.
StepperD(h, n, k) ==
    LET node == NextId(h)
        fwd == Thunk("step_link", "D", <<n>>, k, "next")
        bwd == Thunk("step_link", "D", <<n>>, k, "previous")
    IN  IF h.nodes[n].memo
        THEN Alloc(h, DoublyLinkedStream(h.nodes[n].value,
                     thunk_init(fwd, "_previous", node, TRUE),
                     thunk_init(bwd, "_next", node, TRUE), TRUE))
        ELSE Alloc(h, DoublyLinkedStream(h.nodes[n].value, fwd, bwd, FALSE))

\* SinglyLinkedStream._stopper: a new stream limited to k nodes.
\* node._stopper(k) of a doubly linked node is DoublyLinkedStream._stopper.
Stopper(h, n, k) ==
    IF h.nodes[n].cls = "D" THEN StopperD(h, n, k)
    ELSE IF k = 0 THEN Ret(h, None)
    ELSE Alloc(h, SinglyLinkedStream(h.nodes[n].value,
                 Thunk("stop", "S", <<n>>, k, ""), h.nodes[n].memo))

\* SinglyLinkedStream._stepper: a new stream that visits every k-th node.
\* node._stepper(k) of a doubly linked node is DoublyLinkedStream._stepper.
Stepper(h, n, k) ==
    IF h.nodes[n].cls = "D" THEN StepperD(h, n, k)
    ELSE Alloc(h, SinglyLinkedStream(h.nodes[n].value,
            Thunk("step", "S", <<n>>, k, ""), h.nodes[n].memo))

RECURSIVE SumValues(_, _)
SumValues(h, streams) ==
    IF streams = <<>> THEN 0
    ELSE h.nodes[Head(streams)].value + SumValues(h, Tail(streams))

\* fn(*map(attrgetter('value'), streams)), with fn the sum of its arguments
\* (operator.add for two streams).
fn(h, streams) == SumValues(h, streams)

HasNone(streams) == \E j \in 1..Len(streams) : streams[j] = None

MapSNoAdvance(h, streams, does_memoize) ==
    IF HasNone(streams) THEN Raise(h, "AttributeError")
    ELSE Alloc(h, SinglyLinkedStream(fn(h, streams),
                 Thunk("map", "S", streams,
                       IF does_memoize THEN 1 ELSE 0, ""), does_memoize))

\* SinglyLinkedStream.map: attrgetter('value') of None raises AttributeError.
MapS(h, streams, does_memoize) ==
    IF HasNone(streams) THEN Raise(h, "AttributeError")
    ELSE Alloc(h, SinglyLinkedStream(fn(h, streams),
                 Thunk("map_next", "S", streams,
                       IF does_memoize THEN 1 ELSE 0, ""), does_memoize))

\* DoublyLinkedStream.map: the thunks map over the next and over the
\* previous nodes of the inputs; the initializers of a memoizing node are
\* not guarded.
MapD(h, streams, does_memoize) ==
    LET node == NextId(h)
        fwd == Thunk("map_link", "D", streams, IF does_memoize THEN 1 ELSE 0,
                     "next")
        bwd == Thunk("map_link", "D", streams, IF does_memoize THEN 1 ELSE 0,
                     "previous")
    IN  IF HasNone(streams) THEN Raise(h, "AttributeError")
        ELSE IF does_memoize
        THEN Alloc(h, DoublyLinkedStream(fn(h, streams),
                     thunk_init(fwd, "_previous", node, FALSE),
                     thunk_init(bwd, "_next", node, FALSE), TRUE))
        ELSE Alloc(h, DoublyLinkedStream(fn(h, streams), fwd, bwd, FALSE))

ReversedNotSwapped(h, n) ==
    LET self == h.nodes[n]
        node == NextId(h)
        fwd == Thunk("reversed_node", "D", <<n>>, 0, "next")
        bwd == Thunk("reversed_node", "D", <<n>>, 0, "previous")
    IN  IF self.memo
        THEN Alloc(h, DoublyLinkedStream(self.value,
                     thunk_init(fwd, "_previous", node, TRUE),
                     thunk_init(bwd, "_next", node, TRUE), TRUE))
        ELSE Alloc(h, DoublyLinkedStream(self.value, fwd, bwd, FALSE))

\* DoublyLinkedStream.__reversed__: next and previous swapped; a memoizing
\* node wraps both thunks with thunk_init so that the node found in one
\* direction is pointed back at the new node.
Reversed(h, n) ==
    LET self == h.nodes[n]
        node == NextId(h)
        fwd == Thunk("reversed_node", "D", <<n>>, 0, "previous")
        bwd == Thunk("reversed_node", "D", <<n>>, 0, "next")
    IN  IF self.memo
        THEN Alloc(h, DoublyLinkedStream(self.value,
                     thunk_init(fwd, "_previous", node, TRUE),
                     thunk_init(bwd, "_next", node, TRUE), TRUE))
        ELSE Alloc(h, DoublyLinkedStream(self.value, fwd, bwd, FALSE))

\* reversed_node: reversed(node), or node itself when reversed() raises
\* TypeError (None, or a node without __reversed__).
reversed_node(h, n) ==
    IF n = None \/ h.nodes[n].cls = "S" THEN Ret(h, n) ELSE Reversed(h, n)

(* ----------------------------- evaluation ----------------------------- *)
\* Each step that follows a call is an operator of the call's result r:
\* the heap after the call, what it returned and what it raised.
RECURSIVE ReadLink(_, _, _)
RECURSIVE Walk(_, _, _, _)
RECURSIVE ReadEach(_, _, _, _)
RECURSIVE Filter(_, _, _, _)
RECURSIVE Scan(_, _, _)

StarterOneShort(h, n, k) ==
    Walk(h, n, "next", IF k <= 0 THEN 0 ELSE k - 1)

\* SinglyLinkedStream._starter: range(n) is empty for a negative n.
\* DoublyLinkedStream._starter: a negative n walks the previous links.
Starter(h, n, k) ==
    IF h.nodes[n].cls = "S"
    THEN Walk(h, n, "next", IF k < 0 THEN 0 ELSE k)
    ELSE Walk(h, n, IF k < 0 THEN "previous" ELSE "next",
              IF k < 0 THEN -k ELSE k)

\* cls.map(fn, *nexts, does_memoize=does_memoize), once the links are read
MapNexts(r, does_memoize) ==
    IF r.err # Ok THEN Raise(r.h, r.err) ELSE MapS(r.h, r.rets, does_memoize)

StopAtKeepCount(r, i) ==
    IF r.err # Ok THEN r
    ELSE IF r.ret = None
    THEN IF i > 1 THEN Raise(r.h, "IndexError") ELSE Ret(r.h, None)
    ELSE Stopper(r.h, r.ret, i)

StopAtStrict(r, i) ==
    IF r.err # Ok THEN r
    ELSE IF r.ret = None
    THEN IF i > 0 THEN Raise(r.h, "IndexError") ELSE Ret(r.h, None)
    ELSE Stopper(r.h, r.ret, i - 1)

\* stop(node, i) of _stopper, once next_ = node.next is read
StopAt(r, i) ==
    IF r.err # Ok THEN r
    ELSE IF r.ret = None
    THEN IF i > 1 THEN Raise(r.h, "IndexError") ELSE Ret(r.h, None)
    ELSE Stopper(r.h, r.ret, i - 1)

StepAtRaises(r, i) ==
    IF r.err # Ok THEN r ELSE Stepper(r.h, r.ret, i)

\* step(node, i) of _stepper, once node._starter(i) returned or raised
StepAt(r, i) ==
    IF r.err = "IndexError" THEN Ret(r.h, None)
    ELSE IF r.err # Ok THEN r
    ELSE Stepper(r.h, r.ret, i)

\* cls.map(fn, *map(attrgetter(d), streams), does_memoize=...) of
\* DoublyLinkedStream.map, once the links are read
MapLinks(r, does_memoize) ==
    IF r.err # Ok THEN Raise(r.h, r.err) ELSE MapD(r.h, r.rets, does_memoize)

\* self.next._stopper(n - 1) / self.previous._stopper(n + 1), once the
\* link is read: None has no _stopper.
StopLink(r, i) ==
    IF r.err # Ok THEN r
    ELSE IF r.ret = None THEN Raise(r.h, "AttributeError")
    ELSE Stopper(r.h, r.ret, i)

\* predicate(value): p has bit v set when the predicate accepts v.
predicate(p, value) == (p \div (2 ^ (value - 1))) % 2 = 1

\* The node filter returns for the node found: a singly linked stream, a
\* doubly linked stream whose thunks thunk_init points back at it, or a
\* plain doubly linked stream when the node found does not memoize.
FilterNode(h, node, p) ==
    LET new_node == NextId(h)
        fwd == Thunk("filter", h.nodes[node].cls, <<node>>, p, "next")
        bwd == Thunk("filter", h.nodes[node].cls, <<node>>, p, "previous")
    IN  IF h.nodes[node].cls = "S"
        THEN Alloc(h, SinglyLinkedStream(h.nodes[node].value, fwd,
                                         h.nodes[node].memo))
        ELSE IF h.nodes[node].memo
        THEN Alloc(h, DoublyLinkedStream(h.nodes[node].value,
                     thunk_init(fwd, "_previous", new_node, FALSE),
                     thunk_init(bwd, "_next", new_node, FALSE), TRUE))
        ELSE Alloc(h, DoublyLinkedStream(h.nodes[node].value, fwd, bwd, FALSE))

\* node = node.next; if node is None: return node, then the loop again
FilterOn(r, p, d) ==
    IF r.err # Ok THEN r
    ELSE IF r.ret = None THEN Ret(r.h, None)
    ELSE Filter(r.h, r.ret, p, d)

\* SinglyLinkedStream.filter (d is next) and DoublyLinkedStream._filter:
\* walk past the values the predicate rejects, then wrap the node found.
Filter(h, n, p, d) ==
    IF predicate(p, h.nodes[n].value) THEN FilterNode(h, n, p)
    ELSE FilterOn(ReadLink(h, n, d), p, d)

\* node.next.filter(predicate) once node.next is read: None has no filter.
FilterNext(r, p, d) ==
    IF r.err # Ok THEN r
    ELSE IF r.ret = None THEN Raise(r.h, "AttributeError")
    ELSE Filter(r.h, r.ret, p, d)

\* reversed_node(...) of the link read
ReversedAt(r) ==
    IF r.err # Ok THEN r ELSE reversed_node(r.h, r.ret)

\* The body of a thunk.
Call(h, th) ==
    CASE th.op = "const" -> Ret(h, th.a[1])
      \* a user thunk that builds a new node on every call:
      \* lambda: cls(k, lambda: None)
      [] th.op = "fresh" ->
            Alloc(h, NewNode(th.cls, th.k, ConstThunk(None),
                             IF th.cls = "S" THEN NoThunk ELSE ConstThunk(None),
                             TRUE))
      \* lambda: cls._from_iterator(iterator)
      \* lambda: cls._from_iterator(iterator, lambda: node, does_memoize=...)
      [] th.op = "from_iterator" ->
            IF th.cls = "S" THEN FromIteratorS(h, th.a[1], TRUE)
            ELSE FromIteratorD(h, th.a[1], ConstThunk(th.a[2]), th.k = 1)
      \* lambda: Stream.map(add, ones, ints)
      [] th.op = "map" -> MapS(h, th.a, th.k = 1)
      \* lambda: cls.map(fn, *map(attrgetter('next'), streams), ...)
      [] th.op = "map_next" ->
            MapNexts(ReadEach(h, th.a, "next", <<>>), th.k = 1)
      \* lambda: stop(self, n)
      [] th.op = "stop" -> StopAt(ReadLink(h, th.a[1], "next"), th.k)
      \* lambda: step(self, n)
      [] th.op = "step" -> StepAt(Starter(h, th.a[1], th.k), th.k)
      \* DoublyLinkedStream.map: lambda: cls.map(fn, *map(attrgetter('next'),
      \* streams), ...) and the same over 'previous'
      [] th.op = "map_link" ->
            MapLinks(ReadEach(h, th.a, th.d, <<>>), th.k = 1)
      \* DoublyLinkedStream._stopper: lambda: self.next._stopper(n - 1) and
      \* lambda: self.previous._stopper(n + 1)
      [] th.op = "stop_link" ->
            StopLink(ReadLink(h, th.a[1], th.d),
                     IF th.d = "next" THEN th.k - 1 ELSE th.k + 1)
      \* DoublyLinkedStream._stepper: lambda: step_forward(self, n) and
      \* lambda: step_backward(self, n)
      [] th.op = "step_link" ->
            StepAt(Starter(h, th.a[1], IF th.d = "next" THEN th.k ELSE -th.k),
                   th.k)
      \* lambda: node.next.filter(predicate)
      \* lambda: node.next._filter(predicate, TraversalDirection.NEXT)
      [] th.op = "filter" ->
            FilterNext(ReadLink(h, th.a[1], th.d), th.k, th.d)
      \* lambda: reversed_node(self.previous) / reversed_node(self.next)
      [] th.op = "reversed_node" -> ReversedAt(ReadLink(h, th.a[1], th.d))

\* get_object of thunk_init, once obj = thunk() returned: init(obj)
Initialized(r, init) ==
    IF init.field = "" \/ r.err # Ok THEN r
    ELSE InitAttr(r.h, r.ret, init)

\* Calling a thunk: its body, then the initializer thunk_init attached.
Invoke(h, th) == Initialized(Call(h, th), th.init)

\* The next and previous properties, once the thunk returned: the result
\* is stored when the node memoizes.
Resolved(r, n, d) ==
    IF r.err # Ok THEN r
    ELSE Ret(NoteRead(Memoize(r.h, n, d, r.ret), n, d, r.ret), r.ret)

\* The next and previous properties: the slot when it is set, else the
\* thunk's result.
ReadLink(h, n, d) ==
    IF h.nodes[n].res[d]
    THEN Ret(NoteRead(h, n, d, h.nodes[n].link[d]), h.nodes[n].link[d])
    ELSE Resolved(Invoke(CountCall(h, n, d), h.nodes[n].thunk[d]), n, d)

\* if node is None: raise IndexError, then the rest of the loop
WalkOn(r, d, k) ==
    IF r.err # Ok THEN r
    ELSE IF r.ret = None THEN Raise(r.h, "IndexError")
    ELSE Walk(r.h, r.ret, d, k)

\* for _ in range(k): node = getattr(node, attribute)
Walk(h, n, d, k) ==
    IF k = 0 THEN Ret(h, n) ELSE WalkOn(ReadLink(h, n, d), d, k - 1)

ReadEachOn(r, streams, d, acc) ==
    IF r.err # Ok THEN [h |-> r.h, rets |-> acc, err |-> r.err]
    ELSE ReadEach(r.h, streams, d, Append(acc, r.ret))

\* map(attrgetter(d), streams), unpacked: the links are read in order.
ReadEach(h, streams, d, acc) ==
    IF streams = <<>> THEN [h |-> h, rets |-> acc, err |-> Ok]
    ELSE ReadEachOn(ReadLink(h, Head(streams), d), Tail(streams), d, acc)

ReadNext(h, n) == ReadLink(h, n, "next")
ReadPrevious(h, n) == ReadLink(h, n, "previous")

(* ----------------------------- containment ---------------------------- *)
\* node = node.next of __iter__; the for loop ends when the generator does
ScanOn(r, value) ==
    IF r.err # Ok THEN r
    ELSE IF r.ret = None THEN Ret(r.h, FALSE)
    ELSE Scan(r.h, r.ret, value)

\* for candidate in node: if candidate == value: return True
Scan(h, n, value) ==
    IF h.nodes[n].value = value THEN Ret(h, TRUE)
    ELSE ScanOn(ReadLink(h, n, "next"), value)

\* for candidate in reversed(self).next: iterating None raises TypeError
ScanBack(r, value) ==
    IF r.err # Ok THEN r
    ELSE IF r.ret = None THEN Raise(r.h, "TypeError")
    ELSE Scan(r.h, r.ret, value)

\* reversed(self).next
ReversedNext(r) == ReadLink(r.h, r.ret, "next")

\* the second loop of DoublyLinkedStream.__contains__, after the first
ContainsBack(r, n, value) ==
    IF r.err # Ok \/ r.ret THEN r
    ELSE ScanBack(ReversedNext(Reversed(r.h, n)), value)

\* DoublyLinkedStream.__contains__
Contains(h, n, value) == ContainsBack(Scan(h, n, value), n, value)

(* ------------------------ indexing and slicing ------------------------ *)
\* A slice part is <<>> (None) or <<v>>.
NoKey == [start |-> <<>>, stop |-> <<>>, step |-> <<>>]

ValueOf(r) ==
    IF r.err # Ok THEN r ELSE Ret(r.h, r.h.nodes[r.ret].value)

\* LinearStream.__getitem__ with an integer key: self._starter(key).value
GetIndex(h, n, key) == ValueOf(Starter(h, n, key))

\* if start is not None: ... node = node._starter(start)
SliceStart(h, n, start) ==
    IF start = <<>> THEN Ret(h, n)
    ELSE IF start[1] < 0 THEN Raise(h, "ValueError")
    ELSE Starter(h, n, start[1])

\* if stop is not None: ... stop -= start; if start > stop: raise ...
\* node = node._stopper(stop)
SliceStop(r, start, stop) ==
    IF r.err # Ok \/ stop = <<>> THEN r
    ELSE IF stop[1] < 0 THEN Raise(r.h, "ValueError")
    ELSE IF start = <<>> THEN Stopper(r.h, r.ret, stop[1])
    ELSE IF start[1] > stop[1] - start[1] THEN Raise(r.h, "ValueError")
    ELSE Stopper(r.h, r.ret, stop[1] - start[1])

\* if step is not None: ... node = node._stepper(step); node is None after
\* _stopper(0)
SliceStep(r, step) ==
    IF r.err # Ok \/ step = <<>> THEN r
    ELSE IF step[1] <= 0 THEN Raise(r.h, "ValueError")
    ELSE IF r.ret = None THEN Raise(r.h, "AttributeError")
    ELSE Stepper(r.h, r.ret, step[1])

\* LinearStream.__getitem__ with a slice: each part is validated when its
\* turn comes, after the parts before it were applied.
GetSlice(h, n, key) ==
    SliceStep(SliceStop(SliceStart(h, n, key.start), key.start, key.stop),
              key.step)

(* ------------------------------ iteration ----------------------------- *)
NoIter == [root |-> None, cur |-> None, out |-> <<>>, st |-> "idle",
           err |-> Ok, runs |-> 0]

\* node = node.next; the loop ends on None, else yield node.value
Yielded(r, g) ==
    [h |-> r.h,
     g |-> IF r.err # Ok THEN [g EXCEPT !.st = "error", !.err = r.err]
           ELSE IF r.ret = None THEN [g EXCEPT !.st = "done"]
           ELSE [g EXCEPT !.cur = r.ret,
                          !.out = Append(@, r.h.nodes[r.ret].value)]]

\* One next() of the generator of LinearStream.__iter__: the first yields
\* self.value, a later one reads node.next and yields its value or ends.
IterAdvance(h, g) ==
    IF g.st = "new"
    THEN [h |-> h,
          g |-> [g EXCEPT !.st = "running",
                          !.out = Append(@, h.nodes[g.cur].value)]]
    ELSE Yielded(ReadNext(h, g.cur), g)

RECURSIVE DrainFrom(_, _)
DrainFrom(a, fuel) ==
    IF a.g.st \in {"done", "error"} \/ fuel = 0 THEN a
    ELSE DrainFrom(IterAdvance(a.h, a.g), fuel - 1)

\* list(itertools.islice(iter(node), fuel)) on a copy of the heap: what
\* iterating the stream from this state produces.
Drain(h, n, fuel) ==
    IF n = None THEN [NoIter EXCEPT !.st = "done"]
    ELSE DrainFrom([h |-> h,
                    g |-> [NoIter EXCEPT !.root = n, !.cur = n, !.st = "new"]],
                   fuel + 1).g

(* ------------------------------- actions ------------------------------ *)
Nodes == 1..Len(heap.nodes)

Result(op, n, k, key, r) ==
    [op |-> op, node |-> n, k |-> k, key |-> key, ret |-> r.ret, err |-> r.err]

Finish(op, n, k, key, r) ==
    /\ heap' = r.h
    /\ pre' = heap
    /\ res' = Result(op, n, k, key, r)
    /\ ops' = IF op = "slice" THEN MaxOps ELSE ops + 1
    /\ UNCHANGED <<it, scn>>

\* node.next
DoNext(n) ==
    /\ ops < MaxOps
    /\ Finish("next", n, 0, NoKey, ReadNext(heap, n))

\* node.previous, of a doubly linked node
DoPrevious(n) ==
    /\ ops < MaxOps
    /\ heap.nodes[n].cls = "D"
    /\ Finish("previous", n, 0, NoKey, ReadPrevious(heap, n))

\* node[k]
DoIndex(n, k) ==
    /\ ops < MaxOps
    /\ Finish("index", n, k, NoKey, GetIndex(heap, n, k))

\* node[start:stop:step]; a run takes one slice, as its last operation
\* before iterating.
DoSlice(n, key) ==
    /\ ops < MaxOps
    /\ heap.nodes[n].cls = "S"
    /\ Finish("slice", n, 0, key, GetSlice(heap, n, key))

\* SinglyLinkedStream.map(add, *streams)
DoMap(streams) ==
    /\ ops < MaxOps
    /\ \A j \in 1..Len(streams) : heap.nodes[streams[j]].cls = "S"
    /\ Finish("map", streams[1], Len(streams), NoKey, MapS(heap, streams, TRUE))

\* DoublyLinkedStream.map(add, *streams)
DoMapD(streams) ==
    /\ ops < MaxOps
    /\ \A j \in 1..Len(streams) : heap.nodes[streams[j]].cls = "D"
    /\ Finish("map", streams[1], Len(streams), NoKey, MapD(heap, streams, TRUE))

\* node[:k]
DoLimit(n, k) ==
    /\ ops < MaxOps
    /\ Finish("limit", n, k, [NoKey EXCEPT !.stop = <<k>>],
              GetSlice(heap, n, [NoKey EXCEPT !.stop = <<k>>]))

\* node[::k]
DoSkip(n, k) ==
    /\ ops < MaxOps
    /\ Finish("skip", n, k, [NoKey EXCEPT !.step = <<k>>],
              GetSlice(heap, n, [NoKey EXCEPT !.step = <<k>>]))

\* node.filter(predicate)
DoFilter(n, p) ==
    /\ ops < MaxOps
    /\ Finish("filter", n, p, NoKey, Filter(heap, n, p, "next"))

\* value in node
DoContains(n, value) ==
    /\ ops < MaxOps
    /\ heap.nodes[n].cls = "D"
    /\ Finish("contains", n, value, NoKey, Contains(heap, n, value))

\* reversed(node)
DoReversed(n) ==
    /\ ops < MaxOps
    /\ heap.nodes[n].cls = "D"
    /\ Finish("reversed", n, 0, NoKey, Reversed(heap, n))

\* No generator is suspended.
Idle == it.st \notin {"new", "running"}

\* iter(node)
IterStart(n) ==
    /\ it.runs < MaxRuns
    /\ it.st \in {"idle", "done", "error"}
    /\ it' = [root |-> n, cur |-> n, out |-> <<>>, st |-> "new", err |-> Ok,
              runs |-> it.runs + 1]
    /\ UNCHANGED <<heap, pre, res, ops, scn>>

\* next() on the generator
IterStep ==
    /\ it.st \in {"new", "running"}
    /\ Len(it.out) < MaxYield
    /\ heap' = IterAdvance(heap, it).h
    /\ it' = IterAdvance(heap, it).g
    /\ pre' = heap
    /\ res' = [op |-> "iter", node |-> it.cur, k |-> 0, key |-> NoKey,
               ret |-> None, err |-> Ok]
    /\ UNCHANGED <<ops, scn>>

Scenario(kind, cls, S, a, b) ==
    [kind |-> kind, cls |-> cls, S |-> S, a |-> a, b |-> b]

Start(h, s) ==
    /\ heap = h
    /\ pre = h
    /\ res = [op |-> "none", node |-> None, k |-> 0, key |-> NoKey,
              ret |-> None, err |-> Ok]
    /\ it = NoIter
    /\ ops = 0
    /\ scn = s

(* ---------------- memoization: nodes with fresh thunks ---------------- *)
FreshThunk(cls, v) == Thunk("fresh", cls, <<>>, v, "")

\* A = cls(1, next_thunk[, previous_thunk], does_memoize=memo) where each
\* thunk would return a new node on every call.
InitMemo ==
    \E cls \in {"S", "D"}, memo \in BOOLEAN :
        Start([nodes |-> <<NewNode(cls, 1, FreshThunk(cls, 2),
                                   IF cls = "S" THEN NoThunk
                                   ELSE FreshThunk(cls, 2), memo)>>,
               iters |-> <<>>],
              Scenario("fresh", cls, <<>>, 1, None))

NextMemo ==
    \/ \E n \in Nodes : DoNext(n)
    \/ \E n \in Nodes : DoPrevious(n)
    \/ \E n \in Nodes : DoReversed(n)

SpecMemo == InitMemo /\ [][NextMemo]_vars

\* C1: a memoizing node invokes the thunk of a direction at most once, and
\* every read of the direction returns the object the first read returned,
\* which is the object the slot holds.
MemoizationIdempotent ==
    \A n \in Nodes : \A d \in Dir :
        heap.nodes[n].memo =>
            /\ heap.nodes[n].calls[d] <= 1
            /\ heap.nodes[n].stable[d]
            /\ (heap.nodes[n].first[d] # -1 =>
                    /\ heap.nodes[n].res[d]
                    /\ heap.nodes[n].link[d] = heap.nodes[n].first[d])
            /\ (res.op = d /\ res.node = n /\ res.err = Ok =>
                    res.ret = heap.nodes[n].first[d])

\* A memoizing node was read twice in the same direction.
MemoReadTwice ==
    /\ ops >= 2
    /\ res.op \in Dir
    /\ heap.nodes[res.node].memo
    /\ pre.nodes[res.node].first[res.op] > 0
    /\ res.ret = pre.nodes[res.node].first[res.op]

(* ------------- back-fill: a doubly linked node A before B ------------- *)
\* B = DoublyLinkedStream(2, lambda: None, own_previous)
\* A = DoublyLinkedStream(1, lambda: B), or with the thunk wrapped:
\* A = DoublyLinkedStream(1, thunk_init(lambda: B, init)), init(obj) setting
\* obj._previous = A.  B is node 1 and A is node 2.
InitPair ==
    \E wrapped \in BOOLEAN, guarded \in BOOLEAN, memo \in BOOLEAN :
        LET B == DoublyLinkedStream(2, ConstThunk(None), FreshThunk("D", 2), TRUE)
            t == ConstThunk(1)
            A == DoublyLinkedStream(1,
                     IF wrapped THEN thunk_init(t, "_previous", 2, guarded)
                     ELSE t,
                     ConstThunk(None), memo)
        IN  /\ wrapped \/ ~guarded
            /\ Start([nodes |-> <<B, A>>, iters |-> <<>>],
                     Scenario(IF wrapped THEN "wrapped" ELSE "plain",
                              "D", <<>>, 2, 1))

NextPair ==
    \/ \E n \in Nodes : DoNext(n)
    \/ \E n \in Nodes : DoPrevious(n)
    \/ \E n \in Nodes : DoReversed(n)

SpecPair == InitPair /\ [][NextPair]_vars

\* The last operation resolved the next link of the memoizing doubly linked
\* node a to the node b, whose previous link was unresolved until then.
ResolvedNextTo(a, b) ==
    /\ res.op = "next" /\ res.node = a /\ res.err = Ok /\ res.ret = b
    /\ b # None
    /\ heap.nodes[a].cls = "D" /\ heap.nodes[a].memo
    /\ ~pre.nodes[a].res["next"]
    /\ heap.nodes[b].cls = "D" /\ heap.nodes[b].memo
    /\ (b <= Len(pre.nodes) => ~pre.nodes[b].res["previous"])

\* The last operation read the previous link of b, which an earlier read of
\* a.next had found and whose own backward thunk was never invoked.
ReadPreviousOf(a, b) ==
    /\ res.op = "previous" /\ res.node = b /\ res.err = Ok
    /\ a <= Len(pre.nodes)
    /\ pre.nodes[a].cls = "D" /\ pre.nodes[a].memo
    /\ pre.nodes[a].res["next"] /\ pre.nodes[a].link["next"] = b
    /\ pre.nodes[b].memo
    /\ pre.nodes[b].first["previous"] = -1

BackFilled(a, b) ==
    /\ ResolvedNextTo(a, b) =>
          /\ heap.nodes[b].res["previous"]
          /\ heap.nodes[b].link["previous"] = a
          /\ heap.nodes[b].calls["previous"] = 0
    /\ ReadPreviousOf(a, b) =>
          /\ res.ret = a
          /\ heap.nodes[b].calls["previous"] = 0

\* a's forward thunk went through thunk_init with an initializer that sets
\* the _previous slot of the node found to a.
WrapsNext(a) ==
    /\ heap.nodes[a].thunk["next"].init.field = "_previous"
    /\ heap.nodes[a].thunk["next"].init.node = a

Seqs(n) == UNION {[1..m -> Values] : m \in 0..n}

IsPrefix(p, q) == Len(p) <= Len(q) /\ SubSeq(q, 1, Len(p)) = p

\* A = SinglyLinkedStream.from_iterable(S)
InitIter ==
    \E S \in Seqs(MaxLen) :
        LET r == from_iterable(EmptyHeap, "S", S) IN
        Start(r.h, Scenario("from_iterable", "S", S, r.ret, None))

NextIter ==
    \/ \E n \in Nodes : Idle /\ DoNext(n)
    \/ \E n \in Nodes : \E k \in 0..MaxIdx : Idle /\ DoIndex(n, k)
    \/ \E n \in Nodes : IterStart(n)
    \/ IterStep

SpecIter == InitIter /\ [][NextIter]_vars

\* C2: iterating from the head of from_iterable(S), the first time and
\* again, yields S in order and ends with the last node's next link
\* resolved to None; the source is pulled once per node produced and once
\* more when it is found exhausted.  from_iterable of an empty S is None.
FromIterableRoundTrip ==
    /\ (scn.S = <<>>) = (scn.a = None)
    /\ it.st # "error"
    /\ heap.iters[1].pos = Len(heap.nodes)
    /\ heap.iters[1].pulls \in {Len(heap.nodes), Len(heap.nodes) + 1}
    /\ heap.iters[1].pulls <= Len(scn.S) + 1
    /\ (it.st \in {"running", "done"} /\ it.root = scn.a =>
            IsPrefix(it.out, scn.S))
    /\ (it.st = "done" /\ it.root = scn.a =>
            /\ it.out = scn.S
            /\ heap.nodes[it.cur].res["next"]
            /\ heap.nodes[it.cur].link["next"] = None
            /\ heap.iters[1].pulls = Len(scn.S) + 1)

\* A second iteration from the head has ended.
IteratedAgain ==
    /\ it.runs = 2 /\ it.st = "done" /\ it.root = scn.a
    /\ Len(it.out) >= 2
    /\ it.out = scn.S

\* C3: node[k] is the (k+1)-th value of iterating the node when the
\* iteration yields more than k values, and raises IndexError otherwise.
IndexMatchesIteration ==
    res.op = "index" =>
        LET g == Drain(heap, res.node, MaxLen + 1) IN
        /\ g.st = "done"
        /\ IF res.k < Len(g.out)
           THEN res.err = Ok /\ res.ret = g.out[res.k + 1]
           ELSE res.err = "IndexError"

\* An index beyond the first found a value.
IndexFound ==
    /\ res.op = "index" /\ res.k >= 1 /\ res.err = Ok
    /\ res.ret = scn.S[res.k + 1] /\ res.node = scn.a
    /\ scn.S[1] # scn.S[res.k + 1]

(* ------------------------------ slicing ------------------------------- *)
Part == {<<>>} \cup {<<v>> : v \in -1..MaxIdx}

Keys == [start : Part, stop : Part, step : Part]

Iota(n) == [i \in 1..n |-> i]

\* A = SinglyLinkedStream.from_iterable([1, ..., L])
InitSlice ==
    \E L \in 0..MaxLen :
        LET r == from_iterable(EmptyHeap, "S", Iota(L)) IN
        Start(r.h, Scenario("from_iterable", "S", Iota(L), r.ret, None))

NextSlice ==
    \/ \E n \in Nodes : DoNext(n)
    \/ \E n \in Nodes : \E key \in Keys : DoSlice(n, key)

SpecSlice == InitSlice /\ [][NextSlice]_vars

\* The slice violates a constraint of its parts.
Invalid(key) ==
    \/ key.start # <<>> /\ key.start[1] < 0
    \/ key.stop # <<>> /\ key.stop[1] < 0
    \/ key.step # <<>> /\ key.step[1] <= 0
    \/ key.start # <<>> /\ key.stop # <<>> /\ key.start[1] > key.stop[1]

\* No thunk of a node of p was invoked and none of its links changed
\* between the heaps p and h, and no iterator was pulled.
Untouched(p, h) ==
    /\ h.iters = p.iters
    /\ \A n \in 1..Len(p.nodes) : \A d \in Dir :
          /\ h.nodes[n].calls[d] = p.nodes[n].calls[d]
          /\ h.nodes[n].res[d] = p.nodes[n].res[d]
          /\ h.nodes[n].link[d] = p.nodes[n].link[d]

\* C6: an invalid slice raises ValueError, and nothing was invoked or
\* resolved when it is raised.
SliceValidationEager ==
    res.op = "slice" /\ Invalid(res.key) =>
        /\ res.err = "ValueError"
        /\ Untouched(pre, heap)

\* C7: for 0 <= start <= stop <= the length of A, A[start:stop] raises
\* nothing and holds the values at positions start .. stop-1 of A (None
\* when start = stop); ValueError is raised only when start exceeds stop.
SliceWindow ==
    res.op = "slice" /\ res.key.start # <<>> /\ res.key.stop # <<>>
        /\ res.key.step = <<>> =>
        LET start == res.key.start[1]
            stop == res.key.stop[1]
            A == Drain(heap, res.node, MaxLen + 1)
        IN  /\ (0 <= start /\ start <= stop /\ A.st = "done"
                  /\ stop <= Len(A.out) =>
                    /\ res.err = Ok
                    /\ (start = stop => res.ret = None)
                    /\ Drain(heap, res.ret, MaxLen + 1).st = "done"
                    /\ Drain(heap, res.ret, MaxLen + 1).out
                         = SubSeq(A.out, start + 1, stop))
            /\ (0 <= start /\ 0 <= stop /\ res.err = "ValueError" =>
                    start > stop)

\* The values of A and of the slice taken of it: what iterating res.node
\* before the slice, and the slice after it, produces.
Before == Drain(pre, res.node, MaxLen + 1)
After == Drain(heap, res.ret, MaxLen + 1)

LimitKey(n) == [start |-> <<>>, stop |-> <<n>>, step |-> <<>>]
StepKey(k) == [start |-> <<>>, stop |-> <<>>, step |-> <<k>>]

\* C14: A[:0] is None; A[:n] is built without an error; for 1 <= n <= L
\* iterating it yields the first n values of A and ends; for n > L it
\* yields the L values of A and then raises IndexError.
LimitTo ==
    \A n \in 0..MaxIdx :
        res.op = "slice" /\ res.key = LimitKey(n) =>
            /\ res.err = Ok
            /\ (n = 0) = (res.ret = None)
            /\ Before.st = "done"
            /\ IF n <= Len(Before.out)
               THEN After.st = "done" /\ After.out = SubSeq(Before.out, 1, n)
               ELSE /\ After.st = "error" /\ After.err = "IndexError"
                    /\ After.out = Before.out

\* A limit one past the length of a stream of two or more nodes was
\* iterated up to the IndexError.
LimitPastEnd ==
    /\ res.op = "slice"
    /\ \E n \in 1..MaxIdx :
          /\ res.key = LimitKey(n)
          /\ Len(Before.out) >= 2
          /\ n = Len(Before.out) + 1
          /\ After.st = "error" /\ After.out = Before.out

EveryKth(s, k) ==
    IF s = <<>> THEN <<>>
    ELSE [i \in 1..((Len(s) - 1) \div k + 1) |-> s[(i - 1) * k + 1]]

\* C15: iterating A[::k], k >= 1, yields the values of A at the positions
\* 0, k, 2k, ... and ends at None without an error.
StepBy ==
    \A k \in 1..MaxIdx :
        res.op = "slice" /\ res.key = StepKey(k) =>
            /\ res.err = Ok
            /\ Before.st = "done"
            /\ After.st = "done"
            /\ After.out = EveryKth(Before.out, k)

\* A[::2] of three nodes: the advance of two links from the last visited
\* node runs past the end of A.
SteppedByTwo ==
    /\ res.op = "slice" /\ res.key = StepKey(2)
    /\ Len(Before.out) = 3
    /\ After.st = "done" /\ Len(After.out) = 2

(* -------------------------------- map --------------------------------- *)
\* s1 = from_iterable([1, ..., L1]), s2 = from_iterable([11, ..., 10 + L2])
InitMap ==
    \E L1 \in 1..MaxLen, L2 \in 1..MaxLen :
        LET r1 == from_iterable(EmptyHeap, "S", Iota(L1))
            r2 == from_iterable(r1.h, "S", [i \in 1..L2 |-> 10 + i])
        IN  Start(r2.h, Scenario("map", "S", <<L1, L2>>, r1.ret, r2.ret))

NextMap ==
    \/ \E n \in Nodes : Idle /\ DoNext(n)
    \/ \E streams \in {<<scn.a>>, <<scn.a, scn.b>>, <<scn.b, scn.a>>} :
          Idle /\ DoMap(streams)
    \/ \E n \in Nodes : IterStart(n)
    \/ IterStep

SpecMap == InitMap /\ [][NextMap]_vars

Min(x, y) == IF x < y THEN x ELSE y

\* The node was returned by map over these streams.
IsMapOf(n, streams) ==
    /\ n \in Nodes
    /\ heap.nodes[n].thunk["next"].op = "map_next"
    /\ heap.nodes[n].thunk["next"].a = streams

\* C4: iterating map(fn, s1, s2) yields fn of the j-th values for
\* j = 1 .. min(n1, n2) and then ends at None.
MapLockStep ==
    IsMapOf(it.root, <<scn.a, scn.b>>) =>
        /\ it.st # "error"
        /\ Len(it.out) <= Min(scn.S[1], scn.S[2])
        /\ \A j \in 1..Len(it.out) : it.out[j] = j + (10 + j)
        /\ (it.st = "done" => Len(it.out) = Min(scn.S[1], scn.S[2]))

(* --------------------------- ones and ints ---------------------------- *)
\* ones = Stream(1, lambda: ones)
\* ints = Stream(1, lambda: Stream.map(add, ones, ints))
InitInts ==
    Start([nodes |-> <<SinglyLinkedStream(1, ConstThunk(1), TRUE),
                       SinglyLinkedStream(1, Thunk("map", "S", <<1, 2>>, 1, ""),
                                          TRUE)>>,
           iters |-> <<>>],
          Scenario("ints", "S", <<>>, 1, 2))

UpTo(m) == [start |-> <<>>, stop |-> <<m>>, step |-> <<>>]

NextInts ==
    \/ \E n \in Nodes : DoNext(n)
    \/ \E n \in {scn.a, scn.b} : \E m \in 0..MaxIdx : DoSlice(n, UpTo(m))
    \/ DoMap(<<scn.a, scn.b>>)
    \/ \E n \in Nodes : IterStart(n)
    \/ IterStep

SpecInts == InitInts /\ [][NextInts]_vars

\* The node was returned by n[:m].
IsLimitOf(r, n, m) ==
    /\ r \in Nodes
    /\ heap.nodes[r].thunk["next"].op = "stop"
    /\ heap.nodes[r].thunk["next"].a = <<n>>
    /\ heap.nodes[r].thunk["next"].k = m

\* The nodes from n along the next links resolved so far, fuel at most.
RECURSIVE Chain(_, _, _)
Chain(h, n, fuel) ==
    IF n = None \/ fuel = 0 THEN <<>>
    ELSE IF h.nodes[n].res["next"]
    THEN <<n>> \o Chain(h, h.nodes[n].link["next"], fuel - 1)
    ELSE <<n>>

\* C8: iterating ones never ends and yields only 1; iterating ones[:m]
\* yields m values, all 1, and ends, m nodes long.
OnesForever ==
    /\ it.root = scn.a /\ it.st # "idle" =>
          /\ it.st \in {"new", "running"}
          /\ it.cur = scn.a
          /\ \A j \in 1..Len(it.out) : it.out[j] = 1
    /\ \A m \in 1..MaxIdx : IsLimitOf(it.root, scn.a, m) =>
          /\ it.st # "error"
          /\ Len(it.out) <= m
          /\ \A j \in 1..Len(it.out) : it.out[j] = 1
          /\ (it.st = "done" =>
                /\ Len(it.out) = m
                /\ Len(Chain(heap, it.root, MaxIdx + 1)) = m
                /\ heap.nodes[it.cur].res["next"]
                /\ heap.nodes[it.cur].link["next"] = None)

\* ones[:m] for the largest m was iterated to its end.
OnesLimited ==
    /\ IsLimitOf(it.root, scn.a, MaxIdx)
    /\ it.st = "done"
    /\ Len(it.out) = MaxIdx

TotalCalls(h) ==
    LET RECURSIVE Sum(_)
        Sum(n) == IF n = 0 THEN 0
                  ELSE h.nodes[n].calls["next"] + h.nodes[n].calls["previous"]
                       + Sum(n - 1)
    IN  Sum(Len(h.nodes))

\* C9: building ints and building a map node invoke no thunk, and
\* iterating ints[:m] yields 1, 2, ..., m and ends.
IntsCountUp ==
    /\ (ops = 0 /\ it.st = "idle" => TotalCalls(heap) = 0)
    /\ (res.op = "map" =>
          /\ res.err = Ok
          /\ TotalCalls(heap) = TotalCalls(pre)
          /\ Untouched(pre, heap))
    /\ \A m \in 1..MaxIdx : IsLimitOf(it.root, scn.b, m) =>
          /\ it.st # "error"
          /\ Len(it.out) <= m
          /\ it.out = Iota(Len(it.out))
          /\ (it.st = "done" => Len(it.out) = m)

\* ints[:m] for the largest m was iterated to its end.
IntsLimited ==
    /\ IsLimitOf(it.root, scn.b, MaxIdx)
    /\ it.st = "done"
    /\ it.out = Iota(MaxIdx)

(* ------------------- doubly linked streams, reversed ------------------ *)
\* A = DoublyLinkedStream.from_iterable(S), S not empty
InitRev ==
    \E L \in 1..MaxLen :
        LET S == Iota(L)
            r == from_iterable(EmptyHeap, "D", S) IN
        Start(r.h, Scenario("from_iterable", "D", S, r.ret, None))

NextRev ==
    \/ \E n \in Nodes : it.st = "idle" /\ DoNext(n)
    \/ \E n \in Nodes : it.st = "idle" /\ DoPrevious(n)
    \/ \E n \in Nodes : it.st = "idle" /\ DoReversed(n)
    \/ \E n \in Nodes : IterStart(n)
    \/ IterStep

SpecRev == InitRev /\ [][NextRev]_vars

Reverse(s) == [i \in 1..Len(s) |-> s[Len(s) + 1 - i]]

\* The node was returned by reversed(n) of a memoizing n.
IsReversedOf(r, n) ==
    /\ r \in Nodes
    /\ heap.nodes[r].memo
    /\ heap.nodes[r].thunk["next"].op = "reversed_node"
    /\ heap.nodes[r].thunk["next"].a = <<n>>
    /\ heap.nodes[r].thunk["previous"].op = "reversed_node"

\* The node holding the last element of S: len(S) - 1 reads of next from
\* the head (None while those links are unresolved).
EndNode ==
    LET c == Chain(heap, scn.a, Len(scn.S)) IN
    IF Len(c) = Len(scn.S) THEN c[Len(c)] ELSE None

\* C10: iterating reversed(E), E the node of the last element of
\* DoublyLinkedStream.from_iterable(S), yields S reversed and ends at None.
ReversedFromEnd ==
    EndNode # None /\ IsReversedOf(it.root, EndNode) =>
        /\ it.st # "error"
        /\ IsPrefix(it.out, Reverse(scn.S))
        /\ (it.st = "done" =>
              /\ it.out = Reverse(scn.S)
              /\ heap.nodes[it.cur].res["next"]
              /\ heap.nodes[it.cur].link["next"] = None)

\* reversed(E) of a stream of MaxLen elements, not a palindrome, was
\* iterated to its end.
ReversedIterated ==
    /\ Len(scn.S) = MaxLen
    /\ scn.S # Reverse(scn.S)
    /\ EndNode # None /\ IsReversedOf(it.root, EndNode)
    /\ it.st = "done"
    /\ it.out = Reverse(scn.S)

\* C13: in DoublyLinkedStream.from_iterable(S), reading next on a produced
\* node raises nothing (the node of the last element resolves to None),
\* iterating from the head yields S and ends, and the previous link of
\* each produced node after the head resolves to the node produced before.
FromIterableDoublyEnds ==
    /\ (it.root = scn.a =>
          /\ it.st # "error"
          /\ IsPrefix(it.out, scn.S)
          /\ (it.st = "done" => it.out = scn.S))
    /\ \A j \in 1..Len(Chain(pre, scn.a, Len(scn.S))) :
          LET c == Chain(pre, scn.a, Len(scn.S)) IN
          /\ (res.op = "next" /\ res.node = c[j] => res.err = Ok)
          /\ (res.op = "previous" /\ res.node = c[j] /\ j > 1 =>
                 res.err = Ok /\ res.ret = c[j - 1])

(* ------------------------------ filter -------------------------------- *)
\* The predicates over Values, one bit per value.
Preds == 0..(2 ^ MaxVal - 1)

\* A = SinglyLinkedStream.from_iterable(S), S not empty
InitFilter ==
    \E S \in Seqs(MaxLen) \ {<<>>} :
        LET r == from_iterable(EmptyHeap, "S", S) IN
        Start(r.h, Scenario("from_iterable", "S", S, r.ret, None))

NextFilter ==
    \/ \E n \in Nodes : it.st = "idle" /\ DoNext(n)
    \/ \E n \in Nodes : \E p \in Preds : it.st = "idle" /\ DoFilter(n, p)
    \/ \E n \in Nodes : IterStart(n)
    \/ IterStep

SpecFilter == InitFilter /\ [][NextFilter]_vars

RECURSIVE Select(_, _)
Select(s, p) ==
    IF s = <<>> THEN <<>>
    ELSE IF predicate(p, Head(s)) THEN <<Head(s)>> \o Select(Tail(s), p)
    ELSE Select(Tail(s), p)

\* C11: for A that iterates to its end, A.filter(p) is None when no value
\* of A satisfies p; otherwise
\* iterating it yields the values of A that satisfy p, in order, and ends
\* at None without an error.
FilterSelects ==
    res.op = "filter" /\ Drain(pre, res.node, MaxLen + 1).st = "done" =>
        /\ res.err = Ok
        /\ (res.ret = None) =
               (Select(Drain(pre, res.node, MaxLen + 1).out, res.k) = <<>>)
        /\ Drain(heap, res.ret, MaxLen + 1).st = "done"
        /\ Drain(heap, res.ret, MaxLen + 1).out =
               Select(Drain(pre, res.node, MaxLen + 1).out, res.k)

(* ---------------------------- containment ----------------------------- *)
\* nodes[i] = DoublyLinkedStream(S[i], lambda: nodes[i + 1],
\* lambda: nodes[i - 1]), with None past either end.
ChainD(S, does_memoize) ==
    [nodes |-> [i \in 1..Len(S) |->
                   DoublyLinkedStream(S[i],
                       ConstThunk(IF i < Len(S) THEN i + 1 ELSE None),
                       ConstThunk(IF i > 1 THEN i - 1 ELSE None),
                       does_memoize)],
     iters |-> <<>>]

InitContains ==
    \E S \in Seqs(MaxLen) \ {<<>>} : \E memo \in BOOLEAN :
        Start(ChainD(S, memo), Scenario("chain", "D", S, 1, None))

NextContains ==
    \/ \E n \in Nodes : DoNext(n)
    \/ \E n \in Nodes : DoPrevious(n)
    \/ \E n \in Nodes : \E x \in Values : DoContains(n, x)

SpecContains == InitContains /\ [][NextContains]_vars

\* C12: on a node N of a chain that ends in None both ways, x in N is
\* true when x is the value of a node of the chain and false otherwise,
\* also when N has no previous node.
ContainsBothWays ==
    res.op = "contains" /\ res.node <= Len(scn.S) =>
        /\ res.err = Ok
        /\ res.ret = (\E i \in 1..Len(scn.S) : scn.S[i] = res.k)

(* ------------- doubly linked streams: links kept consistent ----------- *)
\* A chain of doubly linked nodes that ends in None both ways.
InitLinks ==
    \E L \in 1..MaxLen : \E memo \in BOOLEAN :
        Start(ChainD(Iota(L), memo), Scenario("chain", "D", Iota(L), 1, None))

NextLinks ==
    \/ \E n \in Nodes : DoNext(n)
    \/ \E n \in Nodes : DoPrevious(n)
    \/ \E n \in Nodes : DoReversed(n)
    \/ \E n \in Nodes : \E p \in Preds : ops = 0 /\ DoFilter(n, p)
    \/ \E a, b \in Nodes : ops = 0 /\ DoMapD(IF a = b THEN <<a>> ELSE <<a, b>>)
    \/ \E n \in Nodes : \E k \in 1..MaxIdx : ops = 0 /\ DoLimit(n, k)
    \/ \E n \in Nodes : \E k \in 1..MaxIdx : ops = 0 /\ DoSkip(n, k)

SpecLinks == InitLinks /\ [][NextLinks]_vars

\* A memoizing doubly linked node built by map, filter, reversed() or a
\* slice.
Produced(h, x) ==
    /\ h.nodes[x].cls = "D"
    /\ h.nodes[x].memo
    /\ h.nodes[x].thunk["next"].op \in
          {"map_link", "filter", "reversed_node", "stop_link", "step_link"}

Opposite(d) == IF d = "next" THEN "previous" ELSE "next"

\* C16: in a memoizing doubly linked stream built by map, filter,
\* reversed() or a slice, a link of X resolved to a node Y has Y's opposite
\* link resolved to X, and no operation changes a link that was resolved.
LinksConsistent ==
    /\ \A x \in Nodes : \A d \in Dir :
          Produced(heap, x) /\ heap.nodes[x].res[d]
              /\ heap.nodes[x].link[d] # None =>
                  /\ heap.nodes[heap.nodes[x].link[d]].res[Opposite(d)]
                  /\ heap.nodes[heap.nodes[x].link[d]].link[Opposite(d)] = x
    /\ \A x \in 1..Len(pre.nodes) : \A d \in Dir :
          Produced(pre, x) /\ pre.nodes[x].res[d] =>
              /\ heap.nodes[x].res[d]
              /\ heap.nodes[x].link[d] = pre.nodes[x].link[d]

\* A node built by one of the operations has both links resolved to nodes,
\* each pointing back at it.
LinkedBothWays ==
    \E x \in Nodes :
        /\ Produced(heap, x)
        /\ \A d \in Dir :
              /\ heap.nodes[x].res[d]
              /\ heap.nodes[x].link[d] # None
              /\ heap.nodes[heap.nodes[x].link[d]].link[Opposite(d)] = x

====
